---- MODULE Spec2Model ----
(***************************************************************************)
(* BabyCare Timer (src/src/App.jsx): the event log, the derived            *)
(* last-by-type / next-due maps, the countdown formatter and the CSV       *)
(* codec.                                                                  *)
(*                                                                         *)
(* Representation.  A JavaScript string is a sequence of one-character     *)
(* strings, so that the CSV scanner works character by character.  The     *)
(* value undefined of an optional string field is the one-element          *)
(* sequence <<"undefined">>, and null where a string is expected is        *)
(* <<"null">>: neither is a sequence of single characters, so neither can  *)
(* be confused with a string.  An instant is an integer number of          *)
(* milliseconds; its ISO text (Date.prototype.toISOString) is modelled as  *)
(* its decimal digits, and Date parsing as reading decimal digits back,    *)
(* every other text being an invalid date (getTime() is NaN).              *)
(***************************************************************************)
EXTENDS Integers, Sequences, FiniteSets, TLC

VARIABLES
    entries,      \* useLocalStorage("bct_entries"): the log, a sequence of records
    settings,     \* useLocalStorage("bct_settings"): [intervals |-> key -> JS value]
    now,          \* Date.now(), in ms
    lastByType,   \* value returned by computeLastByType
    nextDue,      \* outcome of computeNextDue: [threw, value]
    isoUntil,     \* argument of diffToCountdown
    countdown,    \* value returned by diffToCountdown
    csvText,      \* text produced by toCSV / handed to fromCSV
    decoded,      \* outcome of fromCSV: [threw, rows]
    inflight,     \* the handleImport calls suspended at "await fromCSV(file)": for
                  \* each its file and the entries of the render it was called in
    alertMsg,     \* text of the alert() of the handler that ran last, "" if none
    uuids,        \* number of ids crypto.randomUUID() has handed out
    op,           \* the handler or callback that ran last, with its arguments
    pc,           \* position of the caller in the pure-function specifications
    layout,       \* how the file handed to fromCSV was written: columns, quoting
    notifEnabled, \* useLocalStorage("bct_notif")
    timers,       \* the setTimeout timers of the notification effect, not yet fired
    effectAt      \* Date.now() when the notification effect last ran

vars == <<entries, settings, now, lastByType, nextDue, isoUntil, countdown,
          csvText, decoded, inflight, alertMsg, uuids, op, pc, layout,
          notifEnabled, timers, effectAt>>

-----------------------------------------------------------------------------
(* Strings and numbers *)

undefined == <<"undefined">>
nullStr == <<"null">>
nullEntry == [null |-> TRUE]

DigitChars == <<"0", "1", "2", "3", "4", "5", "6", "7", "8", "9">>

IsDigit(ch) == \E i \in 1..10 : DigitChars[i] = ch

DigitValue(ch) == (CHOOSE i \in 1..10 : DigitChars[i] = ch) - 1

\* String(n) for an integer n >= 0
RECURSIVE NatToString(_)
NatToString(n) ==
    IF n < 10 THEN <<DigitChars[n + 1]>>
    ELSE NatToString(n \div 10) \o <<DigitChars[(n % 10) + 1]>>

RECURSIVE DigitsToNat(_)
DigitsToNat(s) ==
    IF s = <<>> THEN 0
    ELSE 10 * DigitsToNat(SubSeq(s, 1, Len(s) - 1)) + DigitValue(s[Len(s)])

AllDigits(s) == Len(s) > 0 /\ \A i \in 1..Len(s) : IsDigit(s[i])

\* JS truthiness of a string-or-undefined value
TruthyStr(s) == s # undefined /\ s # nullStr /\ s # <<>>

\* x ?? "" for a string-or-undefined value
OrEmpty(s) == IF s = undefined \/ s = nullStr THEN <<>> ELSE s

\* x || undefined for a string
OrUndefined(s) == IF TruthyStr(s) THEN s ELSE undefined

\* new Date(iso).getTime() is a number (not NaN)
ValidDate(s) == AllDigits(s)

\* new Date(iso).getTime(), for a valid date
GetTime(s) == DigitsToNat(s)

\* new Date(ms).toISOString()
toISOString(ms) == NatToString(ms)

\* const pad = (n) => String(n).padStart(2, "0")
pad(n) == IF n < 10 THEN <<"0">> \o NatToString(n) ELSE NatToString(n)

-----------------------------------------------------------------------------
(* TYPES and DEFAULT_SETTINGS *)

leche == <<"l", "e", "c", "h", "e">>
simeticona == <<"s", "i", "m", "e", "t", "i", "c", "o", "n", "a">>
vitamina == <<"v", "i", "t", "a", "m", "i", "n", "a">>
panal == <<"p", "a", "n", "a", "l">>

\* TYPES.map(t => t.key), in the order of the array
TYPES == <<leche, simeticona, vitamina, panal>>

TypeKeys == {TYPES[i] : i \in 1..Len(TYPES)}

\* JS values an interval setting can hold
Num(n) == [num |-> n]
Str(s) == [str |-> s]
NaN == [nan |-> TRUE]
Undef == [undef |-> TRUE]

IsNum(v) == "num" \in DOMAIN v

DEFAULT_SETTINGS ==
    [intervals |-> (leche :> Num(3)) @@ (simeticona :> Num(6))
                   @@ (vitamina :> Num(24)) @@ (panal :> Num(3))]

MsPerHour == 3600000

-----------------------------------------------------------------------------
(* Array.prototype.sort((a,b) => new Date(b.time) - new Date(a.time)) *)

\* The comparator: new Date(b.time) - new Date(a.time).  The difference is NaN
\* when either time is an invalid date, and sort() reads NaN as +0.
CompareByTimeDesc(a, b) ==
    IF ValidDate(a.time) /\ ValidDate(b.time)
    THEN GetTime(b.time) - GetTime(a.time)
    ELSE 0

\* The comparator orders the elements of s consistently: it is a difference of
\* numbers, or it calls every pair equal.
ConsistentComparator(s) ==
    \/ \A i \in 1..Len(s) : ValidDate(s[i].time)
    \/ \A i, j \in 1..Len(s) : CompareByTimeDesc(s[i], s[j]) = 0

\* e inserted into the sorted sequence s after every element that does not
\* sort after it (sort() is stable)
RECURSIVE InsertSorted(_, _)
InsertSorted(e, s) ==
    IF s = <<>> THEN <<e>>
    ELSE IF CompareByTimeDesc(s[Len(s)], e) <= 0 THEN Append(s, e)
    ELSE Append(InsertSorted(e, SubSeq(s, 1, Len(s) - 1)), s[Len(s)])

RECURSIVE StableSortDesc(_)
StableSortDesc(s) ==
    IF s = <<>> THEN <<>>
    ELSE InsertSorted(s[Len(s)], StableSortDesc(SubSeq(s, 1, Len(s) - 1)))

PermutationsOf(s) ==
    {[i \in 1..Len(s) |-> s[p[i]]] : p \in Permutations(1..Len(s))}

\* The orders sort() may leave s in.  With a consistent comparator it is the
\* stable sort by time descending; otherwise the order is implementation-
\* defined (ECMA-262, Array.prototype.sort), any permutation of s.
SortOutcomes(s) ==
    IF ConsistentComparator(s) THEN {StableSortDesc(s)} ELSE PermutationsOf(s)

-----------------------------------------------------------------------------
(* computeLastByType, computeNextDue *)

\* LastLoop without its guard: map[e.type] = e for every e
RECURSIVE LastLoopOverwrite(_, _)
LastLoopOverwrite(sorted, map) ==
    IF sorted = <<>> THEN map
    ELSE LastLoopOverwrite(Tail(sorted), (Head(sorted).type :> Head(sorted)) @@ map)

\* for (const e of sorted){ if (!map[e.type]) map[e.type] = e; }
\* map[k] of a key not in the map is undefined, which is falsy.
RECURSIVE LastLoop(_, _)
LastLoop(sorted, map) ==
    IF sorted = <<>> THEN map
    ELSE LET e == Head(sorted)
             taken == e.type \in DOMAIN map /\ map[e.type] # nullEntry
         IN LastLoop(Tail(sorted),
                     IF taken THEN map ELSE (e.type :> e) @@ map)

\* The values computeLastByType(es) may return, one per order sort() may
\* produce: { key: entry|null }
computeLastByType(es) ==
    {LastLoop(sorted, [k \in TypeKeys |-> nullEntry]) : sorted \in SortOutcomes(es)}

\* Number(v) for a string v
StrToNumber(s) ==
    IF s = <<>> THEN Num(0)
    ELSE IF AllDigits(s) THEN Num(DigitsToNat(s))
    ELSE IF Head(s) = "-" /\ AllDigits(Tail(s)) THEN Num(0 - DigitsToNat(Tail(s)))
    ELSE NaN

\* JS truthiness of an interval value
Truthy(v) ==
    \/ IsNum(v) /\ v.num # 0
    \/ "str" \in DOMAIN v /\ v.str # <<>>

\* Number(v)
ToNumber(v) ==
    IF IsNum(v) THEN v
    ELSE IF "str" \in DOMAIN v THEN StrToNumber(v.str)
    ELSE NaN

\* settings?.intervals?.[key]
IntervalOf(st, key) ==
    IF key \in DOMAIN st.intervals THEN st.intervals[key] ELSE Undef

\* const hours = Number(settings?.intervals?.[t.key] || 0)
HoursOf(st, key) ==
    LET v == IntervalOf(st, key) IN IF Truthy(v) THEN ToNumber(v) ELSE Num(0)

\* const last = lastByType?.[t.key]?.time
LastTimeOf(lbt, key) ==
    IF key \in DOMAIN lbt /\ lbt[key] # nullEntry THEN lbt[key].time ELSE undefined

\* The body of "for (const t of TYPES)" from TYPES[i] on.  toISOString()
\* raises RangeError on an invalid date, which ends the call.
RECURSIVE NextDueLoop(_, _, _, _)
NextDueLoop(i, res, lbt, st) ==
    IF i > Len(TYPES) THEN [threw |-> FALSE, value |-> res]
    ELSE LET key == TYPES[i]
             last == LastTimeOf(lbt, key)
             hours == HoursOf(st, key)
         IN IF TruthyStr(last) /\ IsNum(hours) /\ hours.num > 0
            THEN IF ValidDate(last)
                 THEN NextDueLoop(i + 1,
                          [res EXCEPT ![key] =
                              toISOString(GetTime(last) + hours.num * MsPerHour)],
                          lbt, st)
                 ELSE [threw |-> TRUE, value |-> res]
            ELSE NextDueLoop(i + 1, res, lbt, st)

\* computeNextDue(lastByType, settings): [threw |-> an exception left the
\* call, value |-> { key: iso|null }]
computeNextDue(lbt, st) ==
    NextDueLoop(1, [k \in TypeKeys |-> nullStr], lbt, st)

\* diffToCountdown with the hours wrapped at one day
diffToCountdownWrapped(iso, t) ==
    IF ~TruthyStr(iso) \/ ~ValidDate(iso) THEN <<"-", "-", ":", "-", "-", ":", "-", "-">>
    ELSE LET ms == GetTime(iso) - t IN
         IF ms <= 0 THEN <<"!", "A", "h", "o", "r", "a", "!">>
         ELSE LET s == ms \div 1000
              IN pad((s \div 3600) % 24) \o <<":">> \o pad((s % 3600) \div 60)
                 \o <<":">> \o pad(s % 60)

\* diffToCountdown(isoUntil) evaluated when Date.now() = t.  The text
\* "!Ahora!" stands for the source's due-now text.
diffToCountdown(iso, t) ==
    IF ~TruthyStr(iso) THEN <<"-", "-", ":", "-", "-", ":", "-", "-">>
    ELSE IF ~ValidDate(iso) THEN <<"-", "-", ":", "-", "-", ":", "-", "-">>
    ELSE LET ms == GetTime(iso) - t IN
         IF ms <= 0 THEN <<"!", "A", "h", "o", "r", "a", "!">>
         ELSE LET s == ms \div 1000
                  h == s \div 3600
                  m == (s % 3600) \div 60
                  ss == s % 60
              IN pad(h) \o <<":">> \o pad(m) \o <<":">> \o pad(ss)

-----------------------------------------------------------------------------
(* toCSV, fromCSV *)

Quote == "\""
Comma == ","
LF == "\n"
CR == "\r"

\* parts.join(sep) for a sequence of strings
RECURSIVE Join(_, _)
Join(parts, sep) ==
    IF parts = <<>> THEN <<>>
    ELSE IF Len(parts) = 1 THEN parts[1]
    ELSE parts[1] \o sep \o Join(Tail(parts), sep)

\* s.replace(/"/g, '""')
RECURSIVE DoubleQuotes(_)
DoubleQuotes(s) ==
    IF s = <<>> THEN <<>>
    ELSE (IF Head(s) = Quote THEN <<Quote, Quote>> ELSE <<Head(s)>>)
         \o DoubleQuotes(Tail(s))

\* const escape = (s) => '"' + String(s ?? "").replace(/"/g, '""') + '"'
escape(s) == <<Quote>> \o DoubleQuotes(OrEmpty(s)) \o <<Quote>>

\* const header = ["id", "tipo", "hora", "cantidad", "notas"]
header == << <<"i", "d">>, <<"t", "i", "p", "o">>, <<"h", "o", "r", "a">>,
             <<"c", "a", "n", "t", "i", "d", "a", "d">>,
             <<"n", "o", "t", "a", "s">> >>

\* [r.id, r.type, r.time, r.amount ?? "", r.notes ?? ""].map(escape).join(",")
RowToCSV(r) ==
    Join(<<escape(r.id), escape(r.type), escape(r.time),
           escape(r.amount), escape(r.notes)>>, <<Comma>>)

\* toCSV(rows)
toCSV(rows) ==
    Join(<<Join(header, <<Comma>>)>> \o [i \in 1..Len(rows) |-> RowToCSV(rows[i])],
         <<LF>>)

\* s.split(ch) for a one-character separator: the texts between one
\* separator and the next
SplitOn(s, ch) ==
    LET seps == {i \in 1..Len(s) : s[i] = ch}
        n == Cardinality(seps)
        pos(k) == IF k = 0 THEN 0
                  ELSE IF k = n + 1 THEN Len(s) + 1
                  ELSE CHOOSE i \in seps : Cardinality({j \in seps : j <= i}) = k
    IN [k \in 1..(n + 1) |-> SubSeq(s, pos(k - 1) + 1, pos(k) - 1)]

\* A line as text.split(/\r?\n/) leaves it: a CR that ends it is part of the
\* separator
DropCR(line) ==
    IF line # <<>> /\ line[Len(line)] = CR THEN SubSeq(line, 1, Len(line) - 1)
    ELSE line

\* text.split(/\r?\n/)
SplitLines(text) ==
    LET parts == SplitOn(text, LF)
    IN [i \in 1..Len(parts) |->
           IF i < Len(parts) THEN DropCR(parts[i]) ELSE parts[i]]

\* xs.filter(Boolean) for a sequence of strings
RECURSIVE FilterNonEmpty(_)
FilterNonEmpty(xs) ==
    IF xs = <<>> THEN <<>>
    ELSE (IF Head(xs) = <<>> THEN <<>> ELSE <<Head(xs)>>) \o FilterNonEmpty(Tail(xs))

IsSpace(ch) == ch \in {" ", "\t", CR, LF}

\* k.trim()
RECURSIVE Trim(_)
Trim(s) ==
    IF s = <<>> THEN <<>>
    ELSE IF IsSpace(Head(s)) THEN Trim(Tail(s))
    ELSE IF IsSpace(s[Len(s)]) THEN Trim(SubSeq(s, 1, Len(s) - 1))
    ELSE s

\* const idx = Object.fromEntries(h.split(',').map((k, i) => [k.trim(), i])):
\* the column of each name, the last one when a name is repeated (columns
\* are counted from 1 here)
HeaderIndex(h) ==
    LET names == SplitOn(h, Comma)
        keys == {Trim(names[i]) : i \in 1..Len(names)}
    IN [k \in keys |->
           CHOOSE i \in 1..Len(names) :
               /\ Trim(names[i]) = k
               /\ \A j \in 1..Len(names) : Trim(names[j]) = k => j <= i]

\* ScanRow where every double quote switches the quoted mode, a doubled one
\* too
RECURSIVE ScanRowNoEscape(_, _, _, _, _)
ScanRowNoEscape(line, i, cur, inQ, cols) ==
    IF i > Len(line) THEN Append(cols, cur)
    ELSE LET ch == line[i] IN
         IF ch = Quote
         THEN ScanRowNoEscape(line, i + 1, cur, ~inQ, cols)
         ELSE IF ch = Comma /\ ~inQ
         THEN ScanRowNoEscape(line, i + 1, <<>>, inQ, Append(cols, cur))
         ELSE ScanRowNoEscape(line, i + 1, Append(cur, ch), inQ, cols)

\* The scanner of one line, from position i on: for (let i=0;i<line.length;i++)
RECURSIVE ScanRow(_, _, _, _, _)
ScanRow(line, i, cur, inQ, cols) ==
    IF i > Len(line) THEN Append(cols, cur)
    ELSE LET ch == line[i] IN
         IF ch = Quote
         THEN IF inQ /\ i + 1 <= Len(line) /\ line[i + 1] = Quote
              THEN ScanRow(line, i + 2, Append(cur, Quote), inQ, cols)
              ELSE ScanRow(line, i + 1, cur, ~inQ, cols)
         ELSE IF ch = Comma /\ ~inQ
         THEN ScanRow(line, i + 1, <<>>, inQ, Append(cols, cur))
         ELSE ScanRow(line, i + 1, Append(cur, ch), inQ, cols)

\* const get = (k) => cols[idx[k]] ?? ""
get(k, cols, idx) ==
    IF k \in DOMAIN idx /\ idx[k] <= Len(cols) THEN cols[idx[k]] ELSE <<>>

\* The record built from one line
RowFromCSV(line, idx) ==
    LET cols == ScanRow(line, 1, <<>>, FALSE, <<>>)
    IN [id |-> get(header[1], cols, idx),
        type |-> get(header[2], cols, idx),
        time |-> get(header[3], cols, idx),
        amount |-> OrUndefined(get(header[4], cols, idx)),
        notes |-> OrUndefined(get(header[5], cols, idx))]

\* fromCSV that returns no rows for a text without a line, instead of raising
fromCSVEmptyOk(text) ==
    LET lines == FilterNonEmpty(SplitLines(text))
    IN IF lines = <<>> THEN [threw |-> FALSE, value |-> <<>>]
       ELSE LET idx == HeaderIndex(Head(lines))
                rest == Tail(lines)
            IN [threw |-> FALSE,
                value |-> [i \in 1..Len(rest) |-> RowFromCSV(rest[i], idx)]]

\* fromCSV(file), given the text of the file: [threw |-> an exception left
\* the call, value |-> the records].  With no line at all h is undefined and
\* h.split raises TypeError.
fromCSV(text) ==
    LET lines == FilterNonEmpty(SplitLines(text))
    IN IF lines = <<>> THEN [threw |-> TRUE, value |-> <<>>]
       ELSE LET idx == HeaderIndex(Head(lines))
                rest == Tail(lines)
            IN [threw |-> FALSE,
                value |-> [i \in 1..Len(rest) |-> RowFromCSV(rest[i], idx)]]

-----------------------------------------------------------------------------
(* The files offered to the import *)

Entry(id, type, time, amount, notes) ==
    [id |-> id, type |-> type, time |-> time, amount |-> amount, notes |-> notes]

\* Time texts: two instants and an unparseable text
T1 == toISOString(1 * MsPerHour)
T2 == toISOString(2 * MsPerHour)
BadTime == <<"x">>

\* A type that is none of the four categories
OtherType == <<"o", "t", "r", "o">>

\* Texts of the files by name: exports of record batches, a file with a row
\* cut short, and an empty file
FileText ==
    [ \* one record dated T2
      later |-> toCSV(<<Entry(<<"m">>, leche, T2, <<"9", "0">>, undefined)>>),
      \* a record with the id of the record of "later" and other field
      \* values, then a record with an id of its own
      same |-> toCSV(<<Entry(<<"m">>, vitamina, T1, undefined, <<"n">>),
                       Entry(<<"k">>, panal, T1, undefined, undefined)>>),
      \* two records with one id
      twice |-> toCSV(<<Entry(<<"d">>, panal, T1, undefined, undefined),
                        Entry(<<"d">>, leche, T1, <<"6", "0">>, undefined)>>),
      \* a record whose time is not a date
      baddate |-> toCSV(<<Entry(<<"z">>, simeticona, BadTime, undefined, undefined)>>),
      \* a record whose type is none of the four categories
      foreign |-> toCSV(<<Entry(<<"f">>, OtherType, T1, undefined, undefined)>>),
      \* toCSV's header and a row of two fields, id and tipo
      short |-> Join(<<Join(header, <<Comma>>),
                       Join(<<escape(<<"s">>), escape(leche)>>, <<Comma>>)>>, <<LF>>),
      empty |-> <<>> ]

FileNames == DOMAIN FileText

\* await fromCSV(file), for each file
DecodedFile == [f \in FileNames |-> fromCSV(FileText[f])]

\* No handleImport call is suspended
NoneInflight == <<>>

\* Number of suspended handleImport calls
InflightCount(fl) == Len(fl)

-----------------------------------------------------------------------------
(* Inputs of the pure-function specifications *)

MaxLog == 3        \* longest log handed to computeLastByType
MaxHours == 1      \* largest interval, in hours, handed to computeNextDue

IdChars == <<"a", "b", "c", "d", "e", "f">>

\* Time texts: two instants and an unparseable text
TimeTexts == {T1, T2, BadTime}

\* Two of the four categories and a type that is none of them
LogTypes == {leche, panal, <<"x">>}

\* Logs of n records; the i-th record has the i-th id
RECURSIVE LogsOfLen(_)
LogsOfLen(n) ==
    IF n = 0 THEN {<<>>}
    ELSE {Append(l, Entry(<<IdChars[n]>>, ty, tm, undefined, undefined)) :
            l \in LogsOfLen(n - 1), ty \in LogTypes, tm \in TimeTexts}

Logs == UNION {LogsOfLen(n) : n \in 0..MaxLog}

\* last-by-type maps: per key null or a record of that type
LastMaps ==
    [TypeKeys -> {nullEntry} \cup
                 {Entry(<<"a">>, leche, tm, undefined, undefined) :
                     tm \in TimeTexts \cup {<<>>}}]

LastMapsTyped ==
    {[k \in TypeKeys |-> IF m[k] = nullEntry THEN nullEntry
                         ELSE [m[k] EXCEPT !.type = k]] : m \in LastMaps}

IntervalValues ==
    {Num(n) : n \in (0 - 1)..MaxHours} \cup {Str(<<"a", "b", "c">>), Undef}

SettingsInputs == {[intervals |-> f] : f \in [TypeKeys -> IntervalValues]}

\* Values of the variables a specification does not use
NoOutcome == [threw |-> FALSE, value |-> <<>>]
NoLayout == [columns |-> <<>>, quoteAll |-> TRUE]

-----------------------------------------------------------------------------
(* SpecLast: computeLastByType called on a log *)

InitLast ==
    /\ entries \in Logs
    /\ settings = DEFAULT_SETTINGS
    /\ now = 0
    /\ lastByType = [k \in TypeKeys |-> nullEntry]
    /\ nextDue = NoOutcome
    /\ isoUntil = nullStr
    /\ countdown = <<>>
    /\ csvText = <<>>
    /\ decoded = NoOutcome
    /\ inflight = NoneInflight
    /\ alertMsg = ""
    /\ uuids = 0
    /\ op = [name |-> "none"]
    /\ pc = "start"
    /\ layout = NoLayout
    /\ notifEnabled = FALSE
    /\ timers = {}
    /\ effectAt = 0

\* const lb = computeLastByType(entries)
CallComputeLastByType ==
    /\ pc = "start"
    /\ lastByType' \in computeLastByType(entries)
    /\ pc' = "done"
    /\ UNCHANGED <<entries, settings, now, nextDue, isoUntil, countdown,
                   csvText, decoded, inflight, alertMsg, uuids, op>>
    /\ UNCHANGED <<layout, notifEnabled, timers, effectAt>>

NextLast == CallComputeLastByType

SpecLast == InitLast /\ [][NextLast]_vars

-----------------------------------------------------------------------------
(* SpecDue: computeNextDue called on a last-by-type map and settings *)

InitDue ==
    /\ entries = <<>>
    /\ settings \in SettingsInputs
    /\ now = 0
    /\ lastByType \in LastMapsTyped
    /\ nextDue = NoOutcome
    /\ isoUntil = nullStr
    /\ countdown = <<>>
    /\ csvText = <<>>
    /\ decoded = NoOutcome
    /\ inflight = NoneInflight
    /\ alertMsg = ""
    /\ uuids = 0
    /\ op = [name |-> "none"]
    /\ pc = "start"
    /\ layout = NoLayout
    /\ notifEnabled = FALSE
    /\ timers = {}
    /\ effectAt = 0

\* const nd = computeNextDue(lastByType, settings)
CallComputeNextDue ==
    /\ pc = "start"
    /\ nextDue' = computeNextDue(lastByType, settings)
    /\ pc' = "done"
    /\ UNCHANGED <<entries, settings, now, lastByType, isoUntil, countdown,
                   csvText, decoded, inflight, alertMsg, uuids, op>>
    /\ UNCHANGED <<layout, notifEnabled, timers, effectAt>>

NextComputeDue == CallComputeNextDue

SpecDue == InitDue /\ [][NextComputeDue]_vars

-----------------------------------------------------------------------------
(* Claims about computeLastByType (SpecLast) *)

AllTimesParse(es) == \A i \in 1..Len(es) : ValidDate(es[i].time)

\* Positions of the records of category k
RecordsOf(es, k) == {i \in 1..Len(es) : es[i].type = k}

\* Positions of the records of category k whose timestamp parses
ValidRecordsOf(es, k) == {i \in RecordsOf(es, k) : ValidDate(es[i].time)}

\* r is a record of es at one of the positions ps, and no record at those
\* positions has a later time
LatestAmong(r, es, ps) ==
    \E i \in ps : /\ r = es[i]
                  /\ \A j \in ps : GetTime(es[i].time) >= GetTime(es[j].time)

\* C1: on a log whose timestamps all parse, computeLastByType(log)[C] is null
\* exactly when the log has no record of category C, and otherwise is a record
\* of the log of category C whose time is >= that of every record of C.
C1_LastIsLatest ==
    (pc = "done" /\ AllTimesParse(entries)) =>
        \A k \in TypeKeys :
            /\ (lastByType[k] = nullEntry) <=> (RecordsOf(entries, k) = {})
            /\ lastByType[k] # nullEntry =>
                   /\ lastByType[k].type = k
                   /\ LatestAmong(lastByType[k], entries, RecordsOf(entries, k))

\* The self-test's case: an older and a newer leche record and one panal
\* record; the newer leche record, which is not the first of the log, is taken
C1_Witness ==
    /\ pc = "done"
    /\ Len(entries) = 3
    /\ entries[1].type = leche /\ entries[1].time = T1
    /\ entries[2].type = leche /\ entries[2].time = T2
    /\ entries[3].type = panal /\ entries[3].time = T1
    /\ lastByType[leche] = entries[2]
    /\ lastByType[panal] = entries[3]
    /\ lastByType[simeticona] = nullEntry

\* C8: a record whose timestamp is unparseable is never the last record of
\* its category: the result is the latest record among those with a valid
\* timestamp, or null when the category has none.
C8_InvalidTimeExcluded ==
    pc = "done" =>
        \A k \in TypeKeys :
            IF ValidRecordsOf(entries, k) = {}
            THEN lastByType[k] = nullEntry
            ELSE LatestAmong(lastByType[k], entries, ValidRecordsOf(entries, k))

\* Positions of the records of category k with the latest of the timestamps
\* of the category that parse
LatestOf(es, k) ==
    {i \in ValidRecordsOf(es, k) :
        \A j \in ValidRecordsOf(es, k) : GetTime(es[i].time) >= GetTime(es[j].time)}

\* C16: when two or more records of a category share the timestamp that is
\* the latest of the category, computeLastByType returns the one of them that
\* comes first in the input list.
C16_TieFirstInInput ==
    pc = "done" =>
        \A k \in TypeKeys :
            Cardinality(LatestOf(entries, k)) >= 2 =>
                \E i \in LatestOf(entries, k) :
                    /\ \A j \in LatestOf(entries, k) : i <= j
                    /\ lastByType[k] = entries[i]

-----------------------------------------------------------------------------
(* Claims about computeNextDue (SpecDue) *)

\* The interval value is a number strictly greater than zero
PositiveInterval(v) == IsNum(v) /\ v.num > 0

\* The interval value is negative, non-numeric or missing
BadInterval(v) ==
    \/ IsNum(v) /\ v.num < 0
    \/ "str" \in DOMAIN v /\ ~AllDigits(v.str)
    \/ v = Undef

\* computeNextDue returned, and returned due for category k
Returned(k, due) == ~nextDue.threw /\ nextDue.value[k] = due

\* C2: computeNextDue returns for C the instant last[C].time plus interval[C]
\* hours when last[C] exists and interval[C] > 0, and null otherwise (stated
\* for the categories whose last record, if any, has a time that is an
\* instant).
C2_NextDueIsLastPlusInterval ==
    pc = "done" =>
        \A k \in TypeKeys :
            LET last == lastByType[k]
                v == settings.intervals[k]
            IN IF last # nullEntry /\ PositiveInterval(v)
               THEN ValidDate(last.time) =>
                        Returned(k, toISOString(GetTime(last.time) + v.num * MsPerHour))
               ELSE Returned(k, nullStr)

\* C9: computeNextDue completes without raising an exception for every input.
C9_NextDueNeverRaises == pc = "done" => ~nextDue.threw

\* C10: for every category whose interval value is negative, non-numeric or
\* missing, computeNextDue returns null for it and raises no error, whatever
\* the last-by-type map holds.
C10_BadIntervalIsZero ==
    pc = "done" =>
        \A k \in TypeKeys :
            BadInterval(settings.intervals[k]) => Returned(k, nullStr)

-----------------------------------------------------------------------------
(* SpecCountdown: diffToCountdown called on a due time at a current time *)

MaxCountdownHours == 100   \* longest wait, in hours, handed to diffToCountdown

\* target - now, in ms: at, before and after the due time, and waits that
\* put each of the hours, minutes, seconds and sub-second parts at its ends
CountdownDiffs ==
    {0, 0 - 1, 0 - 1000} \cup
    {h * MsPerHour + m * 60000 + s * 1000 + r :
        h \in {0, 1, 30, MaxCountdownHours}, m \in {0, 1, 59},
        s \in {0, 1, 30, 59}, r \in {0, 1, 999}}

NowValues == {MsPerHour, MsPerHour + 1}

InitCountdown ==
    /\ entries = <<>>
    /\ settings = DEFAULT_SETTINGS
    /\ now \in NowValues
    /\ lastByType = [k \in TypeKeys |-> nullEntry]
    /\ nextDue = NoOutcome
    /\ isoUntil \in {nullStr, undefined, <<>>, BadTime}
                    \cup {toISOString(now + d) : d \in CountdownDiffs}
    /\ countdown = <<>>
    /\ csvText = <<>>
    /\ decoded = NoOutcome
    /\ inflight = NoneInflight
    /\ alertMsg = ""
    /\ uuids = 0
    /\ op = [name |-> "none"]
    /\ pc = "start"
    /\ layout = NoLayout
    /\ notifEnabled = FALSE
    /\ timers = {}
    /\ effectAt = 0

\* {diffToCountdown(due)} in the render
CallDiffToCountdown ==
    /\ pc = "start"
    /\ countdown' = diffToCountdown(isoUntil, now)
    /\ pc' = "done"
    /\ UNCHANGED <<entries, settings, now, lastByType, nextDue, isoUntil,
                   csvText, decoded, inflight, alertMsg, uuids, op>>
    /\ UNCHANGED <<layout, notifEnabled, timers, effectAt>>

NextCountdown == CallDiffToCountdown

SpecCountdown == InitCountdown /\ [][NextCountdown]_vars

Unknown == <<"-", "-", ":", "-", "-", ":", "-", "-">>
DueNow == <<"!", "A", "h", "o", "r", "a", "!">>

\* n in decimal, at least two digits wide
TwoDigits(n) == IF n < 10 THEN <<"0", DigitChars[n + 1]>> ELSE NatToString(n)

\* text is HH:MM:SS for secs whole seconds, MM and SS in 00..59, HH not capped
IsClockOf(text, secs) ==
    \E m \in 0..59, s \in 0..59 :
        LET h == (secs - 60 * m - s) \div 3600
        IN /\ 3600 * h + 60 * m + s = secs
           /\ text = TwoDigits(h) \o <<":">> \o TwoDigits(m) \o <<":">> \o TwoDigits(s)

\* C7: diffToCountdown(target) at time now is "--:--:--" when target is absent
\* or unparseable, the due-now text exactly when target - now <= 0, and
\* otherwise HH:MM:SS for floor((target - now) / 1000) seconds; 30 hours is
\* 30:00:00 and 90 seconds is 00:01:30.
C7_Countdown ==
    pc = "done" =>
        IF ~ValidDate(isoUntil) THEN countdown = Unknown
        ELSE LET ms == GetTime(isoUntil) - now IN
             /\ (countdown = DueNow) <=> (ms <= 0)
             /\ ms > 0 => IsClockOf(countdown, ms \div 1000)
             /\ ms = 30 * MsPerHour =>
                    countdown = <<"3", "0", ":", "0", "0", ":", "0", "0">>
             /\ ms = 90 * 1000 =>
                    countdown = <<"0", "0", ":", "0", "1", ":", "3", "0">>

\* A wait of 30 hours and 999 ms is shown as 30:00:00
C7_Witness ==
    /\ pc = "done"
    /\ ValidDate(isoUntil)
    /\ GetTime(isoUntil) - now = 30 * MsPerHour + 999
    /\ countdown = <<"3", "0", ":", "0", "0", ":", "0", "0">>

-----------------------------------------------------------------------------
(* SpecCSV: a log encoded by toCSV and the text decoded by fromCSV *)

MaxRows == 2       \* most records in an encoded log
MaxFieldLen == 2   \* longest notes text of the varied record

CsvAlphabet == {"a", Comma, Quote, LF, CR}

RECURSIVE TextsOfLen(_)
TextsOfLen(n) ==
    IF n = 0 THEN {<<>>}
    ELSE {Append(t, ch) : t \in TextsOfLen(n - 1), ch \in CsvAlphabet}

FieldTexts == UNION {TextsOfLen(n) : n \in 0..MaxFieldLen}

\* Records whose fields hold no character the codec treats specially
PlainRecords ==
    {Entry(<<"p">>, panal, T1, am, undefined) : am \in {undefined, <<"9", "0">>}}

\* Records with every special character in the optional fields
VariedRecords ==
    {Entry(<<"v">>, leche, T2, am, nt) :
        am \in {undefined, <<>>, <<Quote>>},
        nt \in FieldTexts \cup {undefined}}

RECURSIVE PlainLogsOfLen(_)
PlainLogsOfLen(n) ==
    IF n = 0 THEN {<<>>}
    ELSE {Append(l, r) : l \in PlainLogsOfLen(n - 1), r \in PlainRecords}

PlainLogs == UNION {PlainLogsOfLen(n) : n \in 0..MaxRows}

\* Logs of at most MaxRows records, at most one of them varied, at any place
CsvLogs ==
    PlainLogs \cup
    UNION {{SubSeq(l, 1, i) \o <<v>> \o SubSeq(l, i + 1, Len(l)) :
               i \in 0..Len(l), v \in VariedRecords} :
           l \in UNION {PlainLogsOfLen(n) : n \in 0..(MaxRows - 1)}}

InitCSV ==
    /\ entries \in CsvLogs
    /\ settings = DEFAULT_SETTINGS
    /\ now = 0
    /\ lastByType = [k \in TypeKeys |-> nullEntry]
    /\ nextDue = NoOutcome
    /\ isoUntil = nullStr
    /\ countdown = <<>>
    /\ csvText = <<>>
    /\ decoded = NoOutcome
    /\ inflight = NoneInflight
    /\ alertMsg = ""
    /\ uuids = 0
    /\ op = [name |-> "none"]
    /\ pc = "start"
    /\ layout = NoLayout
    /\ notifEnabled = FALSE
    /\ timers = {}
    /\ effectAt = 0

\* const csv = toCSV(entries)
CallToCSV ==
    /\ pc = "start"
    /\ csvText' = toCSV(entries)
    /\ pc' = "encoded"
    /\ UNCHANGED <<entries, settings, now, lastByType, nextDue, isoUntil,
                   countdown, decoded, inflight, alertMsg, uuids, op>>
    /\ UNCHANGED <<layout, notifEnabled, timers, effectAt>>

\* const rows = await fromCSV(file), the file holding csvText
CallFromCSV ==
    /\ pc = "encoded"
    /\ decoded' = fromCSV(csvText)
    /\ pc' = "decoded"
    /\ UNCHANGED <<entries, settings, now, lastByType, nextDue, isoUntil,
                   countdown, csvText, inflight, alertMsg, uuids, op>>
    /\ UNCHANGED <<layout, notifEnabled, timers, effectAt>>

NextCSV == CallToCSV \/ CallFromCSV

SpecCSV == InitCSV /\ [][NextCSV]_vars

\* The record r as it is after a round trip: an empty amount or notes is absent
Collapsed(r) ==
    [r EXCEPT !.amount = OrUndefined(r.amount), !.notes = OrUndefined(r.notes)]

\* C3: fromCSV(toCSV(records)) has as many records as records, in the same
\* order, each with the same id, type, time, amount and notes, an empty amount
\* or notes coming back absent; also for values with commas, double quotes and
\* line breaks.
C3_RoundTrip ==
    pc = "decoded" =>
        /\ ~decoded.threw
        /\ Len(decoded.value) = Len(entries)
        /\ \A i \in 1..Len(entries) : decoded.value[i] = Collapsed(entries[i])

-----------------------------------------------------------------------------
(* SpecDecode: fromCSV called on a file written by another program, with   *)
(* the columns in any order, with a column the app does not know, without  *)
(* the optional columns, and with the fields quoted always or when needed  *)

MaxDecodeRows == 2   \* most data rows in a file

HeSaidHi == <<"H", "e", " ", "s", "a", "i", "d", " ", Quote, "h", "i", Quote>>

\* The name of a column the app does not know, and the value of its fields
OtherColumn == <<"o", "t", "r", "a">>
OtherValue == <<"e", Comma, "e">>

HeaderPermutations ==
    {[i \in 1..Len(header) |-> header[p[i]]] : p \in Permutations(1..Len(header))}

Reversed(l) == [i \in 1..Len(l) |-> l[Len(l) + 1 - i]]

\* The orders to which a column is added or from which one is taken away
BaseOrders ==
    {header, Reversed(header),
     <<header[3], header[5], header[1], header[4], header[2]>>}

\* l with the column the app does not know at one more place
WithOther(l) ==
    {SubSeq(l, 1, i) \o <<OtherColumn>> \o SubSeq(l, i + 1, Len(l)) : i \in 0..Len(l)}

\* l without the columns named in S
Without(l, S) == SelectSeq(l, LAMBDA name : name \notin S)

\* l with blanks around every name
Spaced(l) == [i \in 1..Len(l) |-> <<" ">> \o l[i] \o <<" ">>]

ColumnOrders ==
    HeaderPermutations
    \cup UNION {WithOther(l) : l \in BaseOrders}
    \cup {Without(l, S) : l \in BaseOrders \cup UNION {WithOther(l) : l \in BaseOrders},
                          S \in {{header[4]}, {header[5]}, {header[4], header[5]}}}
    \cup {Spaced(l) : l \in BaseOrders}

Layouts == [columns : ColumnOrders, quoteAll : BOOLEAN]

\* The first record of a file: commas, double quotes and a line break in the
\* optional fields
DecodeFirstRecords ==
    {Entry(<<"a">>, leche, T1, am, nt) :
        am \in {undefined, <<"9", Comma, "5">>},
        nt \in {undefined, <<>>, HeSaidHi, <<"a", Comma, "b">>, <<Quote>>,
                <<Comma, Quote, Quote>>, <<"a", LF, "b">>}}

\* The other records: no character the scanner treats specially
DecodeMoreRecords ==
    {Entry(<<"b">>, panal, T2, undefined, nt) : nt \in {undefined, <<"n">>}}

RECURSIVE DecodeLogsOfLen(_)
DecodeLogsOfLen(n) ==
    IF n = 0 THEN {<<>>}
    ELSE IF n = 1 THEN {<<r>> : r \in DecodeFirstRecords}
    ELSE {Append(l, r) : l \in DecodeLogsOfLen(n - 1), r \in DecodeMoreRecords}

DecodeLogs == UNION {DecodeLogsOfLen(n) : n \in 0..MaxDecodeRows}

\* The value of record r that goes under the column name
FieldOf(r, name) ==
    LET k == Trim(name)
    IN IF k = header[1] THEN r.id
       ELSE IF k = header[2] THEN r.type
       ELSE IF k = header[3] THEN r.time
       ELSE IF k = header[4] THEN OrEmpty(r.amount)
       ELSE IF k = header[5] THEN OrEmpty(r.notes)
       ELSE OtherValue

NeedsQuotes(v) == \E i \in 1..Len(v) : v[i] \in {Comma, Quote, LF, CR}

\* The text of one field: in double quotes, a double quote inside doubled
WriteField(v, quoteAll) == IF quoteAll \/ NeedsQuotes(v) THEN escape(v) ELSE v

\* The text of the file with the records rows written in the layout lay
WriteFile(lay, rows) ==
    LET line(r) == Join([j \in 1..Len(lay.columns) |->
                            WriteField(FieldOf(r, lay.columns[j]), lay.quoteAll)],
                        <<Comma>>)
    IN Join(<<Join(lay.columns, <<Comma>>)>> \o [i \in 1..Len(rows) |-> line(rows[i])],
            <<LF>>)

InitDecode ==
    /\ entries \in DecodeLogs
    /\ layout \in Layouts
    /\ csvText = WriteFile(layout, entries)
    /\ settings = DEFAULT_SETTINGS
    /\ now = 0
    /\ lastByType = [k \in TypeKeys |-> nullEntry]
    /\ nextDue = NoOutcome
    /\ isoUntil = nullStr
    /\ countdown = <<>>
    /\ decoded = NoOutcome
    /\ inflight = NoneInflight
    /\ alertMsg = ""
    /\ uuids = 0
    /\ op = [name |-> "none"]
    /\ pc = "encoded"
    /\ notifEnabled = FALSE
    /\ timers = {}
    /\ effectAt = 0

NextDecode == CallFromCSV

SpecDecode == InitDecode /\ [][NextDecode]_vars

\* The names of the columns of the file
ColumnNames == {Trim(layout.columns[j]) : j \in 1..Len(layout.columns)}

\* The record r as the file holds it: an optional field is absent when the
\* file has no column for it
AsHeld(r) ==
    [r EXCEPT !.amount = IF header[4] \in ColumnNames THEN @ ELSE undefined,
              !.notes = IF header[5] \in ColumnNames THEN @ ELSE undefined]

\* C13: whatever the order of the columns in the header line, and with a
\* column the app does not know, fromCSV yields the records it yields for the
\* rows the file holds written in toCSV's column order; cantidad and notas
\* decode as absent, never as the empty string, when their column is missing
\* or their value is the empty string.
C13_HeaderDriven ==
    pc = "decoded" =>
        LET held == [i \in 1..Len(entries) |-> AsHeld(entries[i])]
            canonical == fromCSV(toCSV(held))
        IN /\ ~decoded.threw /\ ~canonical.threw
           /\ decoded.value = canonical.value
           /\ \A i \in 1..Len(decoded.value) :
                  /\ header[4] \notin ColumnNames => decoded.value[i].amount = undefined
                  /\ header[5] \notin ColumnNames => decoded.value[i].notes = undefined
                  /\ decoded.value[i].amount # <<>>
                  /\ decoded.value[i].notes # <<>>

\* s holds sub as a run of consecutive characters
Holds(s, sub) ==
    \E i \in 0..(Len(s) - Len(sub)) : SubSeq(s, i + 1, i + Len(sub)) = sub

\* Every row of es is one line of the file: no field holds a line break
OneLineRows(es) ==
    \A i \in 1..Len(es) : \A j \in 1..Len(header) :
        \A n \in 1..Len(FieldOf(es[i], header[j])) :
            FieldOf(es[i], header[j])[n] # LF

\* C15: the scanner of a row (a line of the file) decodes a field written in
\* double quotes, with every double quote of the value doubled, to the value:
\* the enclosing quotes are not part of it, a doubled quote is one quote, a
\* comma inside the quotes does not end the field.  The field "He said ""hi"""
\* decodes to He said "hi".
C15_QuotedFields ==
    (pc = "decoded" /\ OneLineRows(entries)) =>
        /\ ~decoded.threw
        /\ Len(decoded.value) = Len(entries)
        /\ \A i \in 1..Len(entries) :
               LET r == entries[i]
                   d == decoded.value[i]
               IN /\ d.id = r.id /\ d.type = r.type /\ d.time = r.time
                  /\ header[4] \in ColumnNames => d.amount = OrUndefined(r.amount)
                  /\ header[5] \in ColumnNames => d.notes = OrUndefined(r.notes)
                  /\ (r.notes = HeSaidHi /\ header[5] \in ColumnNames) =>
                         /\ Holds(csvText, <<Quote>> \o <<"H", "e", " ", "s", "a", "i", "d", " ">>
                                            \o <<Quote, Quote, "h", "i", Quote, Quote, Quote>>)
                         /\ d.notes = <<"H", "e", " ", "s", "a", "i", "d", " ",
                                        Quote, "h", "i", Quote>>

\* The file holds the field "He said ""hi""" after a quoted amount with a
\* comma, and the notes decode to He said "hi", the amount to 9,5
C15_Witness ==
    /\ pc = "decoded"
    /\ layout.columns = header
    /\ Len(entries) = 1
    /\ Holds(csvText, <<Quote, "9", Comma, "5", Quote, Comma, Quote>>
                       \o <<"H", "e", " ", "s", "a", "i", "d", " ">>
                       \o <<Quote, Quote, "h", "i", Quote, Quote, Quote>>)
    /\ decoded.value[1].amount = <<"9", Comma, "5">>
    /\ decoded.value[1].notes = HeSaidHi

-----------------------------------------------------------------------------
(* Spec: the App component.  pc is "running" while the component is        *)
(* mounted and "crashed" once a render has thrown.                         *)

MaxEntries == 2    \* longest log
MaxAdds == 1       \* number of addEntry calls
MaxTicks == 1      \* number of steps of the clock
MaxInflight == 1   \* handleImport calls suspended at once
MaxOverlap == 2    \* handleImport calls suspended at once, in SpecOverlap
MaxEdits == 1      \* interval settings that differ from DEFAULT_SETTINGS

StartTime == MsPerHour

\* 24*3600*1000
DayMs == 24 * MsPerHour

\* The steps of the clock: an hour, two days
TickSteps == {MsPerHour, 2 * DayMs}

\* Number of steps the clock has taken to reach t
TicksTaken(t) ==
    LET h == (t - StartTime) \div MsPerHour IN (h \div 48) + (h % 48)

\* Values typed into an interval input: Number(e.target.value||0)
IntervalEdits == {Num(1), Num(25)}

\* quickAmount[t.key] and the notes argument of the "Registrar" buttons, with
\* the stored defaults (quickAmount, panalEstado)
QuickAmount(type) ==
    IF type = leche THEN <<"1", "2", "0">>
    ELSE IF type = simeticona THEN <<"6">>
    ELSE IF type = vitamina THEN <<"1">>
    ELSE <<>>

ButtonNotes(type) ==
    IF type = panal THEN <<"M", "o", "j", "a", "d", "o">> ELSE <<>>

\* crypto.randomUUID(): the n-th id handed out
UUID(n) == <<"u">> \o NatToString(n)

AlertDone == "Importacion completada"
AlertFailed == "No se pudo importar el CSV"
AlertReminder == "hora del proximo evento"

\* The merge of handleImport where an imported row replaces the record
\* with its id
MergeRowsOverwrite(prev, rows) ==
    LET incoming == {rows[i].id : i \in 1..Len(rows)}
    IN SelectSeq(prev, LAMBDA x : x.id \notin incoming) \o rows

\* const existing = new Set(prev.map(x=>x.id));
\* const merged = [...prev, ...rows.filter(r=>!existing.has(r.id))];
MergeRows(prev, rows) ==
    LET existing == {prev[i].id : i \in 1..Len(prev)}
    IN prev \o SelectSeq(rows, LAMBDA r : r.id \notin existing)

\* The log the merge would start from if handleImport used the entries of
\* the render it was called in
PrevOfClosure(current, atStart) == atStart

\* setEntries((prev)=> ...): the updater is handed the log as it is when the
\* update is applied, not the entries of the render handleImport was called in
PrevOf(current, atStart) == current

\* The timers the effect creates when it runs at time t: one for each type
\* with a due time less than a day ahead
ArmTimers(nd, enabled, t) ==
    IF ~enabled THEN {}
    ELSE {[key |-> k, at |-> GetTime(nd[k]), fired |-> FALSE] :
            k \in {k \in TypeKeys :
                     /\ TruthyStr(nd[k])
                     /\ ValidDate(nd[k])
                     /\ GetTime(nd[k]) - t > 0
                     /\ GetTime(nd[k]) - t < DayMs}}

\* The timers of an effect without its cleanup: those of the earlier runs
\* stay armed
EffectTimersKept(old, nd, enabled, t) == old \cup ArmTimers(nd, enabled, t)

\* The timers after the effect has run again: return ()=>
\* timers.forEach(clearTimeout) of the earlier run, then the body
EffectTimers(old, nd, enabled, t) == ArmTimers(nd, enabled, t)

\* The timers of tms that clearTimeout stops
Pending(tms) == {tm \in tms : ~tm.fired}

\* The render that follows a change of entries, settings or notifEnabled: the
\* useMemo values are computed again and the notification effect runs again;
\* an exception leaves the component unmounted, its effects cleaned up
Render ==
    /\ lastByType' \in (IF entries' = entries THEN {lastByType}
                        ELSE computeLastByType(entries'))
    /\ nextDue' = computeNextDue(lastByType', settings')
    /\ pc' = IF nextDue'.threw THEN "crashed" ELSE "running"
    /\ timers' = IF nextDue'.threw THEN {}
                 ELSE EffectTimers(timers, nextDue'.value, notifEnabled', now)
    /\ effectAt' = now

Init ==
    /\ entries = <<>>
    /\ settings = DEFAULT_SETTINGS
    /\ now = StartTime
    /\ lastByType = [k \in TypeKeys |-> nullEntry]
    /\ nextDue = [threw |-> FALSE, value |-> [k \in TypeKeys |-> nullStr]]
    /\ isoUntil = nullStr
    /\ countdown = <<>>
    /\ csvText = <<>>
    /\ decoded = NoOutcome
    /\ inflight = NoneInflight
    /\ alertMsg = ""
    /\ uuids = 0
    /\ op = [name |-> "none"]
    /\ pc = "running"
    /\ layout = NoLayout
    /\ notifEnabled = FALSE
    /\ timers = {}
    /\ effectAt = StartTime

\* addEntry(type, amount, notes) from a "Registrar" button
addEntry(type) ==
    /\ pc = "running"
    /\ uuids < MaxAdds
    /\ Len(entries) < MaxEntries
    /\ LET entry == Entry(UUID(uuids + 1), type, toISOString(now),
                          OrUndefined(QuickAmount(type)),
                          OrUndefined(ButtonNotes(type)))
       IN /\ entries' = <<entry>> \o entries
          /\ op' = [name |-> "addEntry", entry |-> entry,
                    cancelled |-> Pending(timers)]
    /\ alertMsg' = ""
    /\ uuids' = uuids + 1
    /\ UNCHANGED <<settings, now, isoUntil, countdown, csvText, decoded,
                   inflight, layout, notifEnabled>>
    /\ Render

\* removeEntry(id) from the "Eliminar" button of a record
removeEntry(id) ==
    /\ pc = "running"
    /\ entries' = SelectSeq(entries, LAMBDA x : x.id # id)
    /\ alertMsg' = ""
    /\ op' = [name |-> "removeEntry", cancelled |-> Pending(timers)]
    /\ UNCHANGED <<settings, now, isoUntil, countdown, csvText, decoded,
                   inflight, uuids, layout, notifEnabled>>
    /\ Render

\* clearAll(), confirmed
clearAll ==
    /\ pc = "running"
    /\ entries # <<>>
    /\ entries' = <<>>
    /\ alertMsg' = ""
    /\ op' = [name |-> "clearAll", cancelled |-> Pending(timers)]
    /\ UNCHANGED <<settings, now, isoUntil, countdown, csvText, decoded,
                   inflight, uuids, layout, notifEnabled>>
    /\ Render

\* The onChange of the interval input of a type:
\* setSettings((s)=> ({...s, intervals: {...s.intervals, [t.key]: value}}))
setSettings(type, value) ==
    /\ pc = "running"
    /\ settings' = [settings EXCEPT !.intervals[type] = value]
    /\ settings' # settings
    /\ Cardinality({k \in TypeKeys :
                      settings'.intervals[k] # DEFAULT_SETTINGS.intervals[k]}) <= MaxEdits
    /\ alertMsg' = ""
    /\ op' = [name |-> "setSettings", cancelled |-> Pending(timers)]
    /\ UNCHANGED <<entries, now, isoUntil, countdown, csvText, decoded,
                   inflight, uuids, layout, notifEnabled>>
    /\ Render

\* The notifications button: setNotifEnabled(v=>!v)
setNotifEnabled ==
    /\ pc = "running"
    /\ notifEnabled' = ~notifEnabled
    /\ alertMsg' = ""
    /\ op' = [name |-> "setNotifEnabled", cancelled |-> Pending(timers)]
    /\ UNCHANGED <<entries, settings, now, isoUntil, countdown, csvText,
                   decoded, inflight, uuids, layout>>
    /\ Render

\* handleImport(ev) up to "await fromCSV(file)": the read of the file starts
handleImportStart(file) ==
    /\ pc = "running"
    /\ inflight' = Append(inflight, [file |-> file, atStart |-> entries])
    /\ UNCHANGED <<entries, settings, now, lastByType, nextDue, isoUntil,
                   countdown, csvText, decoded, alertMsg, uuids, op, pc,
                   layout, notifEnabled, timers, effectAt>>

\* handleImport(ev) from the await on, for the i-th suspended call: the rows
\* are decoded, merged into the log of that moment and sorted, and an alert
\* tells the outcome; when fromCSV throws, only the alert
handleImportFinish(i) ==
    /\ pc = "running"
    /\ i \in 1..Len(inflight)
    /\ inflight' = SubSeq(inflight, 1, i - 1) \o SubSeq(inflight, i + 1, Len(inflight))
    /\ UNCHANGED <<settings, now, isoUntil, countdown, csvText, decoded, uuids,
                   layout, notifEnabled>>
    /\ LET file == inflight[i].file
           rows == DecodedFile[file]
           prev == PrevOf(entries, inflight[i].atStart)
       IN IF rows.threw
          THEN /\ alertMsg' = AlertFailed
               /\ op' = [name |-> "handleImport", threw |-> TRUE, file |-> file,
                         prev |-> entries]
               /\ UNCHANGED <<entries, lastByType, nextDue, pc, timers, effectAt>>
          ELSE /\ Len(MergeRows(prev, rows.value)) <= MaxEntries
               /\ entries' \in SortOutcomes(MergeRows(prev, rows.value))
               /\ alertMsg' = AlertDone
               /\ op' = [name |-> "handleImport", threw |-> FALSE, file |-> file,
                         prev |-> entries, rows |-> rows.value,
                         atStart |-> inflight[i].atStart,
                         cancelled |-> Pending(timers)]
               /\ Render

\* The callback of a timer of the effect, run when its delay has passed: the
\* reminder of the type is shown (a Notification, or an alert)
FireTimer(tm) ==
    /\ pc = "running"
    /\ tm \in Pending(timers)
    /\ tm.at <= now
    /\ timers' = (timers \ {tm}) \cup {[tm EXCEPT !.fired = TRUE]}
    /\ alertMsg' = AlertReminder
    /\ op' = [name |-> "timer", key |-> tm.key, at |-> now]
    /\ UNCHANGED <<entries, settings, now, lastByType, nextDue, isoUntil,
                   countdown, csvText, decoded, inflight, uuids, pc, layout,
                   notifEnabled, effectAt>>

\* The clock advances by d ms; a timer runs when its time comes, before the
\* clock goes on
Tick(d) ==
    /\ pc = "running"
    /\ TicksTaken(now) < MaxTicks
    /\ \A tm \in Pending(timers) : tm.at >= now + d
    /\ now' = now + d
    /\ UNCHANGED <<entries, settings, lastByType, nextDue, isoUntil, countdown,
                   csvText, decoded, inflight, alertMsg, uuids, op, pc, layout,
                   notifEnabled, timers, effectAt>>

\* The log: events registered and deleted, the log cleared, files imported,
\* with the settings and the notification switch left as they are
Next ==
    \/ \E type \in TypeKeys : addEntry(type)
    \/ \E i \in 1..Len(entries) : removeEntry(entries[i].id)
    \/ clearAll
    \/ \E file \in FileNames :
           InflightCount(inflight) < MaxInflight /\ handleImportStart(file)
    \/ \E i \in 1..Len(inflight) : handleImportFinish(i)
    \/ \E d \in TickSteps : Tick(d)

Spec == Init /\ [][Next]_vars

\* The files imported while the reminders are watched
RemindFiles == {"later"}

\* The reminders: the log, the interval settings and the notification switch
\* change, the clock advances and the timers run
NextRemind ==
    \/ \E type \in TypeKeys : addEntry(type)
    \/ \E i \in 1..Len(entries) : removeEntry(entries[i].id)
    \/ clearAll
    \/ \E type \in TypeKeys, value \in IntervalEdits : setSettings(type, value)
    \/ setNotifEnabled
    \/ \E file \in RemindFiles :
           InflightCount(inflight) < MaxInflight /\ handleImportStart(file)
    \/ \E i \in 1..Len(inflight) : handleImportFinish(i)
    \/ \E tm \in timers : FireTimer(tm)
    \/ \E d \in TickSteps : Tick(d)

SpecRemind == Init /\ [][NextRemind]_vars

\* The files of the imports that overlap
OverlapFiles == {"later", "same"}

\* Imports that overlap: while the file of one is read, events are
\* registered and deleted, the log is cleared and another import starts
NextOverlap ==
    \/ addEntry(leche)
    \/ \E i \in 1..Len(entries) : removeEntry(entries[i].id)
    \/ clearAll
    \/ \E file \in OverlapFiles :
           InflightCount(inflight) < MaxOverlap /\ handleImportStart(file)
    \/ \E i \in 1..Len(inflight) : handleImportFinish(i)

SpecOverlap == Init /\ [][NextOverlap]_vars

-----------------------------------------------------------------------------
(* Claims about the log (Spec) *)

\* Number of places of es that hold the record r
CountOf(es, r) == Cardinality({i \in 1..Len(es) : es[i] = r})

\* Number of records of es with the id
CountOfId(es, id) == Cardinality({i \in 1..Len(es) : es[i].id = id})

\* C4: when handleImport merges a batch, every imported row whose id is the
\* id of a record already in the log is discarded, and every record that was
\* in the log is still in it with all its field values.
C4_ImportKeepsExisting ==
    (op.name = "handleImport" /\ ~op.threw) =>
        /\ \A i \in 1..Len(op.prev) :
               CountOf(entries, op.prev[i]) = CountOf(op.prev, op.prev[i])
        /\ \A j \in 1..Len(op.rows) :
               CountOfId(op.prev, op.rows[j].id) > 0 =>
                   CountOfId(entries, op.rows[j].id) = CountOfId(op.prev, op.rows[j].id)

\* An import has met a record with the id of one of its rows and other field
\* values, and has added another of its rows
C4_Witness ==
    /\ op.name = "handleImport" /\ ~op.threw
    /\ \E i \in 1..Len(op.prev), j \in 1..Len(op.rows) :
           /\ op.prev[i].id = op.rows[j].id
           /\ op.prev[i] # op.rows[j]
           /\ CountOf(entries, op.prev[i]) = 1
           /\ CountOf(entries, op.rows[j]) = 0
    /\ Len(entries) = Len(op.prev) + 1

\* C5: no two records of the log have the same id.
C5_UniqueIds ==
    \A i, j \in 1..Len(entries) : i # j => entries[i].id # entries[j].id

\* C6: the log, in the order the app holds it, is sorted by timestamp
\* descending (stated for the records whose timestamps parse).
C6_SortedByTimeDesc ==
    \A i, j \in 1..Len(entries) :
        (i < j /\ ValidDate(entries[i].time) /\ ValidDate(entries[j].time)) =>
            GetTime(entries[i].time) >= GetTime(entries[j].time)

\* The lines of data of a file, as fromCSV splits it
DataLines(text) ==
    LET lines == FilterNonEmpty(SplitLines(text))
    IN IF lines = <<>> THEN <<>> ELSE Tail(lines)

\* The number of fields a row of the file needs for the columns id, tipo,
\* hora, cantidad and notas that its header names
FieldsNeeded(text) ==
    LET idx == HeaderIndex(Head(FilterNonEmpty(SplitLines(text))))
        named == {j \in 1..Len(header) : header[j] \in DOMAIN idx}
    IN IF named = {} THEN 0
       ELSE CHOOSE n \in {idx[header[j]] : j \in named} :
                \A j \in named : idx[header[j]] <= n

\* The records fromCSV makes of the rows of the file that have fewer fields
\* than that
ShortRowRecords(text) ==
    LET lines == DataLines(text)
        idx == HeaderIndex(Head(FilterNonEmpty(SplitLines(text))))
    IN {RowFromCSV(lines[i], idx) :
          i \in {i \in 1..Len(lines) :
                   Len(ScanRow(lines[i], 1, <<>>, FALSE, <<>>)) < FieldsNeeded(text)}}

\* C11: after the import of a file in which a data row has fewer fields than
\* the header needs for id, tipo, hora, cantidad or notas, the app has not
\* crashed and the log holds no record made of such a row (the row was
\* skipped, or the import failed as a whole).
C11_ShortRowRejected ==
    (op.name = "handleImport" /\ FileText[op.file] # <<>>) =>
        \A r \in ShortRowRecords(FileText[op.file]) :
            /\ pc # "crashed"
            /\ CountOf(entries, r) = 0

\* C14: every record of the log has one of the four categories as its type.
C14_TypesInClosedSet ==
    \A i \in 1..Len(entries) : entries[i].type \in TypeKeys

\* C20: right after addEntry has registered an event of category C at time t,
\* with interval[C] = h > 0, the new record is the last record of C and
\* nextDue[C] is t plus h hours.
C20_RegisterResetsCountdown ==
    op.name = "addEntry" =>
        LET k == op.entry.type
            v == settings.intervals[k]
        IN PositiveInterval(v) =>
               /\ lastByType[k] = op.entry
               /\ Returned(k, toISOString(GetTime(op.entry.time) + v.num * MsPerHour))

\* The elements of a sequence
Range(q) == {q[i] : i \in 1..Len(q)}

\* The text has no line, so no header line
NoHeaderLine(text) == FilterNonEmpty(SplitLines(text)) = <<>>

\* C21: right after a handleImport call completes: if decoding failed, as it
\* does for a file without a header line, the failure message is shown and the
\* log is as it was; the success message is shown only if decoding returned
\* rows and the log is the merge of these rows into the log.
C21_ImportAllOrNothing ==
    op.name = "handleImport" =>
        /\ NoHeaderLine(FileText[op.file]) => op.threw
        /\ op.threw => alertMsg = AlertFailed /\ entries = op.prev
        /\ alertMsg = AlertDone =>
               /\ ~op.threw
               /\ op.rows = fromCSV(FileText[op.file]).value
               /\ \A r \in Range(entries) \cup Range(op.prev) \cup Range(op.rows) :
                      CountOf(entries, r) = CountOf(MergeRows(op.prev, op.rows), r)

\* The import of the empty file into a log that holds a record has failed:
\* the failure message is shown and the record is still there
C21_Witness ==
    /\ op.name = "handleImport" /\ op.threw
    /\ op.file = "empty"
    /\ alertMsg = AlertFailed
    /\ Len(entries) >= 1
    /\ entries = op.prev

-----------------------------------------------------------------------------
(* Claims about overlapping imports (SpecOverlap) *)

\* The rows whose ids are not ids of records of prev
NewRows(prev, rows) ==
    SelectSeq(rows, LAMBDA r : \A i \in 1..Len(prev) : prev[i].id # r.id)

\* C17: right after a handleImport call completes, the log holds the records
\* of the log as it was at that moment, each as many times as before, and the
\* imported rows whose ids were not in it, and nothing else, whatever happened
\* while the file was read.
C17_ImportKeepsMeantimeChanges ==
    (op.name = "handleImport" /\ ~op.threw) =>
        \A r \in Range(entries) \cup Range(op.prev) \cup Range(op.rows) :
            CountOf(entries, r) =
                CountOf(op.prev, r) + CountOf(NewRows(op.prev, op.rows), r)

\* While the file of an import was read the log has gained a record; the
\* import has kept it and has added a row of its own
C17_Witness ==
    /\ op.name = "handleImport" /\ ~op.threw
    /\ op.atStart = <<>>
    /\ Len(op.prev) = 1
    /\ CountOf(entries, op.prev[1]) = 1
    /\ Len(entries) = 2
    /\ \E j \in 1..Len(op.rows) : CountOf(entries, op.rows[j]) = 1

-----------------------------------------------------------------------------
(* Claims about the reminders (SpecRemind) *)

\* C12: for each category, nextDue is null or an instant strictly later than
\* the current time.
C12_DueInFuture ==
    pc = "running" =>
        \A k \in TypeKeys :
            \/ nextDue.value[k] = nullStr
            \/ ValidDate(nextDue.value[k]) /\ GetTime(nextDue.value[k]) > now

\* C18: a reminder of category C is delivered only with notifications on and
\* at the instant nextDue[C]; and every timer that is armed is a timer for
\* the current nextDue with notifications on: the timers armed before the
\* log, the settings or the switch last changed are cancelled.
C18_NoStaleReminder ==
    /\ op.name = "timer" =>
           /\ notifEnabled
           /\ nextDue.value[op.key] = toISOString(op.at)
    /\ \A tm \in Pending(timers) :
           /\ notifEnabled
           /\ nextDue.value[tm.key] = toISOString(tm.at)
           /\ tm.at >= now

\* An import has changed the due time of a category while a timer for it was
\* armed: that timer is cancelled and one for the new due time is armed
C18_Witness ==
    /\ op.name = "handleImport" /\ ~op.threw
    /\ \E old \in op.cancelled, new \in Pending(timers) :
           /\ old.key = new.key
           /\ old.at < new.at
           /\ nextDue.value[new.key] = toISOString(new.at)

\* C19: with notifications on and the app open, once the due time of a
\* category that was in the future when the log, the settings and the switch
\* last changed has passed, the reminder of the category has been delivered
\* at that time; also when the due time was a day or more ahead.
C19_ReminderDelivered ==
    (pc = "running" /\ notifEnabled) =>
        \A k \in TypeKeys :
            LET due == nextDue.value[k]
            IN (ValidDate(due) /\ effectAt < GetTime(due) /\ GetTime(due) < now) =>
                   \E tm \in timers :
                       tm.key = k /\ tm.at = GetTime(due) /\ tm.fired

====
